---- MODULE Spec2Model ----
(***************************************************************************)
(* A model of the jai-mcp access-control gateway (src/jai_mcp/gateway):    *)
(* the audit middleware, the dependency chain of the /api/{path} route     *)
(* (bearer scheme, API key, identity, admin check, tenant header), the     *)
(* rate limiter that decorates the route, the header rewrite and the       *)
(* forwarder.  Every request occupies a slot; the slot records the         *)
(* position of the request in the pipeline, what it has emitted to the     *)
(* audit sink and what it has sent to the upstream API.                    *)
(***************************************************************************)
EXTENDS Integers, Sequences, FiniteSets, TLC

VARIABLES
    proxy,            \* main.py:23   global proxy instance: "None" | "open" | "closed"
    audit_logger,     \* main.py:24   global audit logger: "None" | "logger"
    env,              \* os.environ as read by the gateway (fixed for a run)
    server,           \* the ASGI server: "up" | "exited" (startup failed)
    _client,          \* client/api.py:95 the tool layer's singleton JaiAPIClient, or NoClient
    mcp,              \* the MCP server: its configuration, the tool call it runs, its calls so far
    ALLOWED_ADMINS,   \* auth.py:16-17 parsed allow-list (a sequence of e-mails)
    storage,          \* rate limiter: per-key hit counter of the current window
    expirations,      \* rate limiter: per-key end of the current window
    now,              \* wall clock, in seconds
    window,           \* per client: start of, and requests admitted in, its current window
    reqs              \* the in-flight requests, one per slot

vars == <<proxy, audit_logger, env, server, _client, mcp, ALLOWED_ADMINS, storage, expirations, now,
          window, reqs>>

-----------------------------------------------------------------------------
(* Bounds of the model.                                                    *)

MaxInFlight == 1      \* requests in flight at once in the pipeline specification
MaxConcurrent == 2    \* requests in flight at once in the limiter specification
MaxOver == 1          \* requests of a client that reach the limiter beyond the limit
MaxTicks == 2         \* times the clock advances, by half a window each time
MaxHeaders == 2      \* headers a caller adds to a request in the rewrite specification
MaxCalls == 3        \* tool invocations in a run

(* Program constants.                                                      *)

RateLimit == 60       \* main.py:102  "60/minute"
WindowSeconds == 60   \* main.py:102  "60/minute"
MinKeyLen == 32       \* auth.py:33   len(api_key) < 32

None == "<None>"

-----------------------------------------------------------------------------
(* Strings.  str.lower() and str.strip() over the strings of the model.    *)

LowerTable ==
    "Authorization" :> "authorization" @@ "AUTHORIZATION" :> "authorization" @@
    "X-Tenant-ID" :> "x-tenant-id" @@ "X-Tenant-Id" :> "x-tenant-id" @@
    "Connection" :> "connection" @@ "Keep-Alive" :> "keep-alive" @@
    "Proxy-Authenticate" :> "proxy-authenticate" @@
    "Proxy-Authorization" :> "proxy-authorization" @@
    "TE" :> "te" @@ "Trailers" :> "trailers" @@
    "Transfer-Encoding" :> "transfer-encoding" @@ "Upgrade" :> "upgrade" @@
    "X-Forwarded-For" :> "x-forwarded-for" @@
    "X-Forwarded-Proto" :> "x-forwarded-proto" @@
    "X-Gateway-User-ID" :> "x-gateway-user-id" @@
    "X-Gateway-User-Email" :> "x-gateway-user-email" @@
    "X-Gateway-User-Roles" :> "x-gateway-user-roles" @@
    "X-Gateway-Tenant-ID" :> "x-gateway-tenant-id" @@
    "X-Gateway-Source" :> "x-gateway-source" @@
    "X-Gateway-User-Id" :> "x-gateway-user-id" @@
    "X-Internal-API-Key" :> "x-internal-api-key" @@
    "Retry-After" :> "retry-after" @@
    "User-Agent" :> "user-agent" @@ "Accept" :> "accept" @@
    "Bearer" :> "bearer" @@ "BEARER" :> "bearer" @@ "Basic" :> "basic"

lower(s) == IF s \in DOMAIN LowerTable THEN LowerTable[s] ELSE s

StripTable ==
    " admin@example.com " :> "admin@example.com" @@
    " ops@example.com" :> "ops@example.com" @@
    " " :> ""

strip(s) == IF s \in DOMAIN StripTable THEN StripTable[s] ELSE s

Range(f) == {f[i] : i \in DOMAIN f}

-----------------------------------------------------------------------------
(* Credentials and identities.                                             *)

Key32 == "k1234567890123456789012345678901"          \* 32 characters
Key31 == "k123456789012345678901234567890"           \* 31 characters
KeyOrg == "org-4567890123456789012345678901234567"   \* 38 characters
KeyUser == "user-567890123456789012345678901234"     \* 35 characters
KeyOps == "ops-4567890123456789012345678901234"      \* 35 characters

MockUser ==
    [id |-> "admin-user-123", email |-> "admin@example.com",
     roles |-> <<"system_admin">>, tenant_id |-> "default"]

OrgAdmin ==
    [id |-> "org-admin-7", email |-> "ops@example.com",
     roles |-> <<"org_admin">>, tenant_id |-> "t1"]

PlainUser ==
    [id |-> "user-42", email |-> "user@example.com",
     roles |-> <<"viewer">>, tenant_id |-> "t1"]

NoRoles ==
    [id |-> "user-43", email |-> "guest@example.com",
     roles |-> <<>>, tenant_id |-> "t2"]

NoUser == [id |-> "", email |-> "", roles |-> <<>>, tenant_id |-> ""]

(* The identity store behind get_user_from_api_key.  The source returns    *)
(* MockUser for every key and leaves the lookup to a backing store; the    *)
(* store of the model holds the source's user and three more identities.   *)
UserDirectory ==
    Key32 :> MockUser @@ KeyOrg :> OrgAdmin @@ KeyUser :> PlainUser @@
    KeyOps :> NoRoles

get_user_from_api_key(api_key) ==
    IF api_key \in DOMAIN UserDirectory THEN UserDirectory[api_key] ELSE MockUser

-----------------------------------------------------------------------------
(* Headers.  An inbound request carries its headers as a list of           *)
(* (name, value) pairs, names in the letter case the caller chose.         *)

Min(S) == CHOOSE x \in S : \A y \in S : x <= y

(* request.headers: the ASGI server hands header names over in lower case. *)
request_headers(raw) ==
    [i \in DOMAIN raw |-> <<lower(raw[i][1]), raw[i][2]>>]

(* Headers.get(key): the first value whose name is key.lower(), else None. *)
headers_get(h, key) ==
    LET idx == {i \in DOMAIN h : h[i][1] = lower(key)}
    IN  IF idx = {} THEN None ELSE h[Min(idx)][2]

(* dict(request.headers): one entry per name, holding its first value.     *)
dict_of_headers(h) ==
    [k \in {h[i][1] : i \in DOMAIN h} |-> headers_get(h, k)]

dict_get(d, k, default) == IF k \in DOMAIN d THEN d[k] ELSE default

dict_update(d, e) ==
    [k \in DOMAIN d \cup DOMAIN e |-> IF k \in DOMAIN e THEN e[k] ELSE d[k]]

dict_pop(d, k) == [j \in DOMAIN d \ {k} |-> d[j]]

RECURSIVE join(_, _)
join(sep, xs) ==
    IF xs = <<>> THEN ""
    ELSE IF Len(xs) = 1 THEN xs[1]
    ELSE xs[1] \o sep \o join(sep, Tail(xs))

-----------------------------------------------------------------------------
(* The dependencies of the /api/{path} route (auth.py).  A dependency      *)
(* returns [ok |-> TRUE, value |-> v] or raises HTTPException(status).     *)

HTTPException(status_code, detail) ==
    [ok |-> FALSE, status_code |-> status_code, detail |-> detail]

Return(v) == [ok |-> TRUE, value |-> v]

Schemes == {"Bearer", "bearer", "BEARER", "Basic"}
Params == {Key32, Key31, KeyOrg, KeyUser, KeyOps, "dXNlcjpwYXNz"}

(* get_authorization_scheme_param: value.partition(" ").                   *)
get_authorization_scheme_param(value) ==
    IF value = None \/ value = "" THEN <<"", "">>
    ELSE IF \E s \in Schemes, p \in Params : value = s \o " " \o p
    THEN CHOOSE sp \in Schemes \X Params : value = sp[1] \o " " \o sp[2]
    ELSE <<value, "">>

(* security = HTTPBearer(): the header must read "<scheme> <credentials>"  *)
(* with scheme "bearer" in any letter case.  The status of its error is    *)
(* 403 in the FastAPI releases before 0.122 and 401 from 0.122 on.         *)
HTTPBearerErrorStatus == {401, 403}

security(h, error_status) ==
    LET authorization == headers_get(h, "Authorization")
        sp == get_authorization_scheme_param(authorization)
    IN  IF authorization = None \/ authorization = "" \/ sp[1] = "" \/ sp[2] = ""
        THEN HTTPException(error_status, "Not authenticated")
        ELSE IF lower(sp[1]) # "bearer"
        THEN HTTPException(error_status, "Invalid authentication credentials")
        ELSE Return(sp[2])

verify_api_key(credentials) ==
    IF credentials = None THEN HTTPException(401, "API key required")
    ELSE IF credentials = "" \/ Len(credentials) < MinKeyLen
    THEN HTTPException(401, "Invalid API key")
    ELSE Return(credentials)

admin_roles == {"system_admin", "org_admin"}

(* verify_admin_access without its role check.                            *)
verify_admin_access_any_role(api_key, allowed_admins) ==
    LET user == get_user_from_api_key(api_key)
    IN  IF allowed_admins # <<>> /\ user.email \notin Range(allowed_admins)
        THEN HTTPException(403, "Admin not authorized for MCP access")
        ELSE Return(user)

verify_admin_access(api_key, allowed_admins) ==
    LET user == get_user_from_api_key(api_key)
    IN  IF ~(\E i \in DOMAIN user.roles : user.roles[i] \in admin_roles)
        THEN HTTPException(403, "MCP access requires admin privileges")
        ELSE IF allowed_admins # <<>> /\ user.email \notin Range(allowed_admins)
        THEN HTTPException(403, "Admin not authorized for MCP access")
        ELSE Return(user)

(* get_tenant_from_request rejecting the absent header only.               *)
get_tenant_from_request_absent_only(h) ==
    LET tenant_id == headers_get(h, "X-Tenant-ID")
    IN  IF tenant_id = None
        THEN HTTPException(400, "Tenant ID required in X-Tenant-ID header")
        ELSE Return(tenant_id)

get_tenant_from_request(h) ==
    LET tenant_id == headers_get(h, "X-Tenant-ID")
    IN  IF tenant_id = None \/ tenant_id = ""
        THEN HTTPException(400, "Tenant ID required in X-Tenant-ID header")
        ELSE Return(tenant_id)

(* Defined by auth.py; no route depends on it.                             *)
verify_tenant_access(tenant, user) ==
    IF "system_admin" \in Range(user.roles) THEN Return(tenant)
    ELSE IF user.tenant_id # tenant
    THEN HTTPException(403, "Cross-tenant access denied")
    ELSE Return(tenant)

(* ALLOWED_ADMINS: JAI_ALLOWED_ADMINS split at "," (here: the list of its  *)
(* pieces), each piece stripped, the empty ones dropped.                   *)
(* ALLOWED_ADMINS keeping the blank pieces of the split.                   *)
parse_allowed_admins_keep_blank(pieces) == pieces

RECURSIVE parse_allowed_admins(_)
parse_allowed_admins(pieces) ==
    IF pieces = <<>> THEN <<>>
    ELSE IF strip(pieces[1]) # ""
    THEN <<strip(pieces[1])>> \o parse_allowed_admins(Tail(pieces))
    ELSE parse_allowed_admins(Tail(pieces))

(* FastAPI solves the dependencies of proxy_request in the order of its    *)
(* parameters: admin_user (verify_admin_access, which depends on           *)
(* verify_api_key, which depends on security), then tenant.  The first     *)
(* HTTPException ends the request.                                         *)
solve_dependencies(req, allowed_admins, error_status) ==
    LET h == request_headers(req.headers)
        credentials == security(h, error_status)
    IN  IF ~credentials.ok THEN credentials ELSE
        LET api_key == verify_api_key(credentials.value)
        IN  IF ~api_key.ok THEN api_key ELSE
            LET admin_user == verify_admin_access(api_key.value, allowed_admins)
            IN  IF ~admin_user.ok THEN admin_user ELSE
                LET tenant == get_tenant_from_request(h)
                IN  IF ~tenant.ok THEN tenant
                    ELSE Return([admin_user |-> admin_user.value,
                                 tenant |-> tenant.value])

(* A route that depends on verify_tenant_access (auth.py:100-103): FastAPI  *)
(* solves its parameters in their order, tenant (get_tenant_from_request)  *)
(* first, then user (verify_admin_access and what it depends on), then     *)
(* runs its body.  No route of the gateway depends on it.                  *)
solve_verify_tenant_access(req, allowed_admins, error_status) ==
    LET h == request_headers(req.headers)
        tenant == get_tenant_from_request(h)
    IN  IF ~tenant.ok THEN tenant ELSE
        LET credentials == security(h, error_status)
        IN  IF ~credentials.ok THEN credentials ELSE
            LET api_key == verify_api_key(credentials.value)
            IN  IF ~api_key.ok THEN api_key ELSE
                LET user == verify_admin_access(api_key.value, allowed_admins)
                IN  IF ~user.ok THEN user
                    ELSE verify_tenant_access(tenant.value, user.value)

-----------------------------------------------------------------------------
(* The rate limiter (main.py:20, main.py:102): slowapi's decorator wraps   *)
(* the endpoint function, so the check runs when FastAPI calls the         *)
(* endpoint, after it has solved the endpoint's dependencies.  The         *)
(* storage is a fixed-window counter per key: a hit drops an expired       *)
(* window, counts, starts the window on its first hit, and is admitted     *)
(* while the count is within the limit.                                    *)

get_remote_address(req) == req.client

(* fixed_window_hit admitting one hit more than the limit.                *)
fixed_window_hit_off_by_one(count, expiry, t) ==
    LET live == IF expiry <= t THEN 0 ELSE count
        n == live + 1
    IN  [count |-> n,
         expiry |-> IF n = 1 THEN t + WindowSeconds ELSE expiry,
         ok |-> n <= RateLimit + 1]

fixed_window_hit(count, expiry, t) ==
    LET live == IF expiry <= t THEN 0 ELSE count
        n == live + 1
    IN  [count |-> n,
         expiry |-> IF n = 1 THEN t + WindowSeconds ELSE expiry,
         ok |-> n <= RateLimit]

(* Limiter(key_func=get_remote_address) (main.py:20) leaves slowapi's      *)
(* headers_enabled at its default.                                         *)
headers_enabled == FALSE

(* _rate_limit_exceeded_handler (main.py:64): the limiter adds its headers *)
(* to the 429 response, Retry-After among them, when headers_enabled.      *)
inject_headers(response_headers, expiry, t) ==
    IF headers_enabled
    THEN dict_update(response_headers, "Retry-After" :> expiry - t)
    ELSE response_headers

-----------------------------------------------------------------------------
(* The header rewrite and the forwarder (proxy.py).                        *)

(* _prepare_internal_headers popping "Authorization" as the caller wrote it. *)
_prepare_internal_headers_pop_titlecase(original_headers, tenant, user, internal_api_key) ==
    LET headers == dict_update(original_headers,
            "X-Forwarded-For" :> dict_get(original_headers, "x-forwarded-for", "unknown") @@
            "X-Forwarded-Proto" :> "https" @@
            "X-Gateway-User-ID" :> user.id @@
            "X-Gateway-User-Email" :> user.email @@
            "X-Gateway-User-Roles" :> join(",", user.roles) @@
            "X-Gateway-Tenant-ID" :> tenant @@
            "X-Gateway-Source" :> "mcp-gateway")
        popped == dict_pop(headers, "Authorization")
    IN  IF internal_api_key # None /\ internal_api_key # ""
        THEN dict_update(popped, "X-Internal-API-Key" :> internal_api_key)
        ELSE popped

_prepare_internal_headers(original_headers, tenant, user, internal_api_key) ==
    LET headers == dict_update(original_headers,
            "X-Forwarded-For" :> dict_get(original_headers, "x-forwarded-for", "unknown") @@
            "X-Forwarded-Proto" :> "https" @@
            "X-Gateway-User-ID" :> user.id @@
            "X-Gateway-User-Email" :> user.email @@
            "X-Gateway-User-Roles" :> join(",", user.roles) @@
            "X-Gateway-Tenant-ID" :> tenant @@
            "X-Gateway-Source" :> "mcp-gateway")
        popped == dict_pop(headers, "authorization")
    IN  IF internal_api_key # None /\ internal_api_key # ""
        THEN dict_update(popped, "X-Internal-API-Key" :> internal_api_key)
        ELSE popped

(* Python's dicts are objects: a heap maps a reference to the mapping it   *)
(* holds.  dict.copy() allocates a new object with the same entries.       *)
(* headers = original_headers, the rewrite working on its argument.        *)
dict_copy_alias(heap, ref) == [heap |-> heap, ref |-> ref]

dict_copy(heap, ref) ==
    LET new == Cardinality(DOMAIN heap) + 1
    IN  [heap |-> (new :> heap[ref]) @@ heap, ref |-> new]

(* The call _prepare_internal_headers(original_headers, tenant, user) on   *)
(* the heap (proxy.py:107-128): the copy, then update, pop and the         *)
(* internal key applied to the copy, whose reference is returned.          *)
call_prepare_internal_headers(heap, original_headers, tenant, user, internal_api_key) ==
    LET headers == dict_copy(heap, original_headers)
    IN  [heap |-> [headers.heap EXCEPT ![headers.ref] =
                        _prepare_internal_headers(@, tenant, user, internal_api_key)],
         ref |-> headers.ref]

hop_by_hop_headers ==
    {"connection", "keep-alive", "proxy-authenticate", "proxy-authorization",
     "te", "trailers", "transfer-encoding", "upgrade"}

remove_hop_by_hop(internal_headers) ==
    [k \in DOMAIN internal_headers \ hop_by_hop_headers |-> internal_headers[k]]

LstripTable ==
    "/modules" :> "modules" @@ "/modules/42" :> "modules/42" @@ "/health" :> "health"

lstrip_slash(path) == IF path \in DOMAIN LstripTable THEN LstripTable[path] ELSE path

(* The call forward_request issues: self._client.request(method, url,      *)
(* headers, content).                                                      *)
upstream_request(method, path, headers, body, tenant, user, internal_api_key) ==
    [method |-> method,
     url |-> "/" \o lstrip_slash(path),
     headers |-> remove_hop_by_hop(
                    _prepare_internal_headers(headers, tenant, user, internal_api_key)),
     content |-> body]

(* Bodies the upstream may send: a JSON document, text that is not JSON,   *)
(* bytes that are not UTF-8, nothing.                                      *)
JsonBody == "{\"modules\": [], \"total\": 0}"
TextBody == "not found"
BinaryBody == "<bytes that are not UTF-8>"
EmptyBody == ""

is_json(b) == b = JsonBody
is_utf8(b) == b # BinaryBody

NoAnswer == [kind |-> "none", status_code |-> 0, body |-> EmptyBody]
Response(status_code, body) ==
    [kind |-> "response", status_code |-> status_code, body |-> body]
NetworkFailure(kind) == [kind |-> kind, status_code |-> 0, body |-> EmptyBody]

(* forward_request from the upstream's answer on: what it returns or       *)
(* raises.                                                                 *)
forward_result(answer) ==
    IF answer.kind # "response"
    THEN [raised |-> "RequestError", data |-> EmptyBody, type |-> "none"]
    ELSE IF answer.status_code >= 400
    THEN [raised |-> "HTTPStatusError", data |-> EmptyBody, type |-> "none"]
    ELSE IF is_json(answer.body)
    THEN [raised |-> "", data |-> answer.body, type |-> "json"]
    ELSE [raised |-> "", data |-> answer.body, type |-> "bytes"]

(* proxy_request around forward_request (main.py:113-128) and FastAPI's    *)
(* serialisation of what it returns: every exception becomes               *)
(* HTTPException(500); a returned document is the body of a 200; returned  *)
(* bytes are decoded as UTF-8, and bytes that do not decode raise out of    *)
(* the route, past proxy_request's try.                                     *)
proxy_response(answer) ==
    LET r == forward_result(answer)
    IN  IF r.raised # ""
        THEN [pc |-> "responded", status_code |-> 500,
              body |-> [type |-> "detail", data |-> "Internal server error"]]
        ELSE IF r.type = "json"
        THEN [pc |-> "responded", status_code |-> 200,
              body |-> [type |-> "json", data |-> r.data]]
        ELSE IF is_utf8(r.data)
        THEN [pc |-> "responded", status_code |-> 200,
              body |-> [type |-> "json_string", data |-> r.data]]
        ELSE [pc |-> "raised", status_code |-> 0,
              body |-> [type |-> "none", data |-> EmptyBody]]

-----------------------------------------------------------------------------
(* Configuration and audit (logging.py).                                   *)

DefaultEnv ==
    [JAI_ALLOWED_ADMINS |-> <<"">>,       \* unset: "".split(",")
     JAI_AUDIT_ENABLED |-> "true",
     JAI_AUDIT_LOG_FILE |-> None,
     JAI_INTERNAL_API_KEY |-> None]

(* The files an audit log may be configured to: one that opens and takes  *)
(* writes, one on a full disk, which opens and takes none, and one in a    *)
(* directory that does not exist, which does not open.                     *)
FileSystem ==
    "/var/log/jai/audit.log" :> [opens |-> TRUE, writes |-> TRUE] @@
    "/mnt/full/audit.log" :> [opens |-> TRUE, writes |-> FALSE] @@
    "/missing/audit.log" :> [opens |-> FALSE, writes |-> FALSE]

(* setup_audit_logging (logging.py:38-70): None when auditing is off;      *)
(* logging.FileHandler opens the configured file when it is built and      *)
(* raises when it cannot; without a file the handler writes to stderr.     *)
setup_audit_logging(e) ==
    IF lower(e.JAI_AUDIT_ENABLED) # "true" THEN "None"
    ELSE IF e.JAI_AUDIT_LOG_FILE \notin {None, ""}
            /\ ~FileSystem[e.JAI_AUDIT_LOG_FILE].opens
    THEN "raise"
    ELSE "logger"

(* audit_logger.info(msg) (main.py:72, main.py:84): the handler writes the *)
(* formatted record to its stream; logging.Handler catches a failing write *)
(* (handleError) and the caller goes on.  log is what the sink holds.      *)
audit_logger_info(log, msg, e) ==
    IF e.JAI_AUDIT_LOG_FILE \notin {None, ""} /\ ~FileSystem[e.JAI_AUDIT_LOG_FILE].writes
    THEN log
    ELSE Append(log, msg)

request_received(req) ==
    [event |-> "request_received", method |-> req.method, path |-> req.url_path,
     client_ip |-> get_remote_address(req),
     user_agent |-> headers_get(request_headers(req.headers), "user-agent")]

request_completed(req, status_code) ==
    [event |-> "request_completed", status_code |-> status_code,
     path |-> req.url_path]

(* The LogRecord audit_logger.info(msg) builds.  A record holds the        *)
(* standard attributes, which AuditLogFormatter skips, and from Python     *)
(* 3.12 on taskName, which it does not skip (logging.py:28-33).            *)
LogRecord(msg, extra) ==
    [name |-> "jai-mcp.gateway.audit", levelname |-> "INFO", msg |-> msg,
     extra |-> extra]

LogRecordExtras == {<<>>, "taskName" :> "Task-1"}

(* AuditLogFormatter.format (logging.py:13-35): the entry that json.dumps  *)
(* writes, as a mapping from field name to value.                          *)
format(record, utcnow) ==
    LET log_entry == "timestamp" :> utcnow @@ "level" :> record.levelname @@
                     "logger" :> record.name
    IN  dict_update(dict_update(log_entry, record.msg), record.extra)

(* log_mcp_operation (logging.py:73-96): the message it hands to           *)
(* audit_logger.info.  No code of the gateway calls it.                    *)
log_mcp_operation(operation, user, tenant, details, utcnow) ==
    LET log_data == [event_type |-> "mcp_operation", operation |-> operation,
                     user_id |-> user.id, user_email |-> user.email,
                     tenant_id |-> tenant, timestamp |-> utcnow]
    IN  IF details \notin {None, <<>>} THEN dict_update(log_data, "details" :> details)
        ELSE log_data

-----------------------------------------------------------------------------
(* Requests and slots.                                                     *)

ApiPath ==
    "/api/modules" :> "modules" @@ "/api//modules" :> "/modules" @@
    "/api/modules/42" :> "modules/42" @@
    "/api/projects/7/members" :> "projects/7/members" @@
    "/api/health" :> "health"

match_route(url_path) ==
    IF url_path = "/health" THEN "health"
    ELSE IF url_path \in DOMAIN ApiPath THEN "api" ELSE "none"

Request(method, url_path, query, client, headers, body) ==
    [method |-> method, url_path |-> url_path, query |-> query,
     client |-> client, headers |-> headers, body |-> body]

NoRequest == Request("", "", "", "", <<>>, None)
NoBody == [type |-> "none", data |-> EmptyBody]

Idle ==
    [pc |-> "idle", req |-> NoRequest, headers |-> <<>>, admin_user |-> NoUser,
     tenant |-> None, rate_limit |-> "unchecked", upstream |-> <<>>,
     answer |-> NoAnswer, status_code |-> 0, body |-> NoBody, audit |-> <<>>]

Clients == {"10.0.0.1", "10.0.0.2"}

Respond(slot, status_code, body) ==
    [slot EXCEPT !.pc = "responded", !.status_code = status_code, !.body = body]

HealthBody == "{\"status\": \"healthy\", \"service\": \"jai-mcp-gateway\"}"

(* The record of what the limiter let through, kept beside the limiter:   *)
(* a client's window starts with the first request admitted after its      *)
(* previous window has ended, and lasts WindowSeconds; hits counts the     *)
(* client's requests that reached the limiter in the run.                  *)
Admit(w, t) ==
    IF w.admitted = 0 \/ t >= w.start + WindowSeconds
    THEN [w EXCEPT !.start = t, !.admitted = 1]
    ELSE [w EXCEPT !.admitted = @ + 1]

-----------------------------------------------------------------------------
(* Actions.  The event loop runs a handler without interruption from one   *)
(* suspension point to the next; an action is one such stretch.            *)

(* audit_middleware up to call_next (main.py:67-80).  A client stops       *)
(* sending once cap of its requests have reached the limiter.              *)
AuditReceive(s, r, cap) ==
    /\ server = "up"
    /\ proxy # "closed"
    /\ reqs[s].pc = "idle"
    /\ window[r.client].hits < cap
    /\ reqs' = [reqs EXCEPT ![s] =
            [Idle EXCEPT !.pc = "call_next", !.req = r,
                         !.audit = IF audit_logger # "None"
                                   THEN audit_logger_info(<<>>, request_received(r), env)
                                   ELSE <<>>]]
    /\ UNCHANGED <<proxy, audit_logger, env, server, _client, mcp, ALLOWED_ADMINS, storage,
                   expirations, now, window>>

(* health_check (main.py:94-97).                                           *)
HealthCheck_authenticated(s) ==
    /\ reqs[s].pc = "call_next"
    /\ match_route(reqs[s].req.url_path) = "health"
    /\ reqs' = [reqs EXCEPT ![s] =
            IF security(request_headers(reqs[s].req.headers), 401).ok
            THEN Respond(@, 200, [type |-> "json", data |-> HealthBody])
            ELSE Respond(@, 401, [type |-> "detail", data |-> "Not authenticated"])]
    /\ UNCHANGED <<proxy, audit_logger, env, server, _client, mcp, ALLOWED_ADMINS, storage,
                   expirations, now, window>>

HealthCheck(s) ==
    /\ reqs[s].pc = "call_next"
    /\ match_route(reqs[s].req.url_path) = "health"
    /\ reqs' = [reqs EXCEPT ![s] =
            Respond(@, 200, [type |-> "json", data |-> HealthBody])]
    /\ UNCHANGED <<proxy, audit_logger, env, server, _client, mcp, ALLOWED_ADMINS, storage,
                   expirations, now, window>>

(* The /api/{path} route up to the outbound call (main.py:101-122,         *)
(* proxy.py:53-71): the dependencies, then the limiter's check, then       *)
(* proxy_request's body.                                                   *)
ProxyRequest(s) ==
    /\ reqs[s].pc = "call_next"
    /\ match_route(reqs[s].req.url_path) = "api"
    /\ \E error_status \in HTTPBearerErrorStatus :
        LET req == reqs[s].req
            d == solve_dependencies(req, ALLOWED_ADMINS, error_status)
            key == get_remote_address(req)
            hit == fixed_window_hit(storage[key], expirations[key], now)
            call == upstream_request(
                        req.method, ApiPath[req.url_path],
                        dict_of_headers(request_headers(req.headers)),
                        IF req.method \in {"POST", "PUT"} THEN req.body ELSE None,
                        d.value.tenant, d.value.admin_user,
                        env.JAI_INTERNAL_API_KEY)
        IN  IF ~d.ok
            THEN /\ reqs' = [reqs EXCEPT ![s] =
                        Respond(@, d.status_code,
                                [type |-> "detail", data |-> d.detail])]
                 /\ UNCHANGED <<storage, expirations, window>>
            ELSE /\ storage' = [storage EXCEPT ![key] = hit.count]
                 /\ expirations' = [expirations EXCEPT ![key] = hit.expiry]
                 /\ window' = [window EXCEPT ![req.client] =
                        [(IF hit.ok THEN Admit(@, now) ELSE @) EXCEPT !.hits = @ + 1]]
                 /\ reqs' = [reqs EXCEPT ![s] =
                        LET solved == [@ EXCEPT !.admin_user = d.value.admin_user,
                                                !.tenant = d.value.tenant]
                        IN  IF ~hit.ok
                            THEN Respond([solved EXCEPT
                                            !.rate_limit = "exceeded",
                                            !.headers = inject_headers(@, hit.expiry, now)],
                                    429, [type |-> "error", data |-> "Rate limit exceeded"])
                            ELSE IF proxy # "open"
                            THEN Respond([solved EXCEPT !.rate_limit = "admitted"], 503,
                                    [type |-> "detail", data |-> "Gateway not ready"])
                            ELSE [solved EXCEPT !.rate_limit = "admitted",
                                                !.pc = "awaiting_upstream",
                                                !.upstream = Append(@, call)]]
    /\ UNCHANGED <<proxy, audit_logger, env, server, _client, mcp, ALLOWED_ADMINS, now>>

(* forward_request calling the upstream once more after an error status or *)
(* a network failure.                                                      *)
UpstreamAnswers_retry(s, answer) ==
    /\ reqs[s].pc = "awaiting_upstream"
    /\ LET r == proxy_response(answer)
           failed == answer.kind # "response" \/ answer.status_code >= 400
       IN  reqs' = [reqs EXCEPT ![s] =
                IF failed /\ Len(@.upstream) = 1
                THEN [@ EXCEPT !.upstream = Append(@, @[1])]
                ELSE [@ EXCEPT !.pc = r.pc, !.status_code = r.status_code,
                               !.body = r.body, !.answer = answer]]
    /\ UNCHANGED <<proxy, audit_logger, env, server, _client, mcp, ALLOWED_ADMINS,
                   storage, expirations, now, window>>

(* The upstream answers, or the call fails on the network; forward_request *)
(* and proxy_request run to their end (proxy.py:73-98, main.py:124-128).   *)
UpstreamAnswers(s, answer) ==
    /\ reqs[s].pc = "awaiting_upstream"
    /\ LET r == proxy_response(answer)
       IN  reqs' = [reqs EXCEPT ![s] =
                [@ EXCEPT !.pc = r.pc, !.status_code = r.status_code,
                          !.body = r.body, !.answer = answer]]
    /\ UNCHANGED <<proxy, audit_logger, env, server, _client, mcp, ALLOWED_ADMINS, storage,
                   expirations, now, window>>

(* audit_middleware after call_next returned a response (main.py:82-90).   *)
AuditComplete(s) ==
    /\ reqs[s].pc = "responded"
    /\ reqs' = [reqs EXCEPT ![s] =
            [@ EXCEPT !.pc = "done",
                      !.audit = IF audit_logger # "None"
                                THEN audit_logger_info(@,
                                        request_completed(reqs[s].req, reqs[s].status_code),
                                        env)
                                ELSE @]]
    /\ UNCHANGED <<proxy, audit_logger, env, server, _client, mcp, ALLOWED_ADMINS, storage,
                   expirations, now, window>>

(* call_next raised: the exception passes through audit_middleware         *)
(* (main.py:80 has no try) and the server's error handler answers 500.     *)
ServerError(s) ==
    /\ reqs[s].pc = "raised"
    /\ reqs' = [reqs EXCEPT ![s] =
            [@ EXCEPT !.pc = "done", !.status_code = 500,
                      !.body = [type |-> "text", data |-> "Internal Server Error"]]]
    /\ UNCHANGED <<proxy, audit_logger, env, server, _client, mcp, ALLOWED_ADMINS, storage,
                   expirations, now, window>>

(* The response has been sent; the slot is free again.                     *)
Finish(s) ==
    /\ reqs[s].pc = "done"
    /\ reqs' = [reqs EXCEPT ![s] = Idle]
    /\ UNCHANGED <<proxy, audit_logger, env, server, _client, mcp, ALLOWED_ADMINS, storage,
                   expirations, now, window>>

TickStep == WindowSeconds \div 2

Tick ==
    /\ now + TickStep <= MaxTicks * TickStep
    /\ now' = now + TickStep
    /\ UNCHANGED <<proxy, audit_logger, env, server, _client, mcp, ALLOWED_ADMINS, storage,
                   expirations, window, reqs>>

(* lifespan (main.py:27-42): startup before the server accepts requests,   *)
(* shutdown after it has stopped accepting them.  An exception raised in   *)
(* startup, after proxy has been built (main.py:34-35), fails the server's *)
(* startup: it exits without serving.                                      *)
LifespanStartup ==
    /\ proxy = "None"
    /\ \A s \in DOMAIN reqs : reqs[s].pc = "idle"
    /\ server = "up"
    /\ proxy' = "open"
    /\ IF setup_audit_logging(env) = "raise"
       THEN audit_logger' = audit_logger /\ server' = "exited"
       ELSE audit_logger' = setup_audit_logging(env) /\ server' = server
    /\ UNCHANGED <<env, _client, mcp, ALLOWED_ADMINS, storage, expirations, now, window, reqs>>

LifespanShutdown ==
    /\ server = "up"
    /\ proxy = "open"
    /\ \A s \in DOMAIN reqs : reqs[s].pc = "idle"
    /\ proxy' = "closed"
    /\ UNCHANGED <<audit_logger, env, server, _client, mcp, ALLOWED_ADMINS, storage, expirations, now,
                   window, reqs>>

-----------------------------------------------------------------------------
(* Inbound requests.                                                       *)

Bearer(key) == "Bearer " \o key

(* Authorization values that carry a key of the directory, and values that *)
(* carry none.                                                             *)
Authorizations ==
    {Bearer(Key32), "bearer " \o Key32, Bearer(KeyOrg), Bearer(KeyUser), Bearer(KeyOps)}

BadAuthorizations ==
    {None, "Basic dXNlcjpwYXNz", "Bearer", Bearer(Key31)}

AllAuthorizations == Authorizations \cup BadAuthorizations

TenantHeaders == {None, "t1", "t2"}

HeaderList(authorization, tenant) ==
    (IF authorization = None THEN <<>> ELSE <<<<"Authorization", authorization>>>>)
    \o (IF tenant = None THEN <<>> ELSE <<<<"X-Tenant-ID", tenant>>>>)

ApiRequests ==
    {Request("GET", "/api/modules", "limit=5", "10.0.0.1", HeaderList(a, t), None) :
        a \in AllAuthorizations, t \in TenantHeaders}
    \cup
    {Request(m, "/api/modules/42", "", "10.0.0.1",
             HeaderList(Bearer(Key32), "t1"), "{\"name\": \"m\"}") :
        m \in {"POST", "PUT", "DELETE"}}
    \cup
    {Request("GET", "/api/modules", "limit=5", "10.0.0.1", HeaderList(a, ""), None) :
        a \in {Bearer(Key32), Bearer(KeyOrg)}}
    \cup
    {Request("DELETE", "/api/projects/7/members", "", "10.0.0.1",
             HeaderList(Bearer(KeyUser), t), None) : t \in {None, "t2"}}

HealthRequests ==
    {Request("GET", "/health", "", "10.0.0.1", HeaderList(a, t), None) :
        a \in {None, Bearer(Key32)}, t \in {None, "t1"}}

Requests == ApiRequests \cup HealthRequests

Answers ==
    {Response(200, JsonBody), Response(200, TextBody), Response(200, BinaryBody),
     Response(201, JsonBody), Response(204, EmptyBody), Response(302, EmptyBody),
     Response(404, TextBody), Response(500, TextBody),
     NetworkFailure("ConnectError"), NetworkFailure("ReadTimeout")}

(* Every kind of answer reaches the plain GET of the source's user; the    *)
(* other requests are answered 200 or 404.                                 *)
AnswersTo(req) ==
    IF req = Request("GET", "/api/modules", "limit=5", "10.0.0.1",
                     HeaderList(Bearer(Key32), "t1"), None)
    THEN Answers
    ELSE {Response(200, JsonBody), Response(404, TextBody)}

Envs ==
    {DefaultEnv,
     [DefaultEnv EXCEPT !.JAI_AUDIT_ENABLED = "false"],
     [DefaultEnv EXCEPT !.JAI_ALLOWED_ADMINS = <<" ops@example.com", " ">>],
     [DefaultEnv EXCEPT !.JAI_ALLOWED_ADMINS = <<" ", "">>]}

-----------------------------------------------------------------------------
(* Specifications.                                                         *)

(* The state after the module is loaded, with counts[k] requests of client *)
(* k admitted at time 0.                                                   *)
(* The tool layer's configuration (config.py:15-17) and the state of the   *)
(* MCP server: the tool call it is running, the request that call has      *)
(* issued, and the calls it has completed.                                 *)
DefaultConfig ==
    [JAI_API_KEY |-> Key32, JAI_TENANT |-> "t1",
     JAI_MCP_ENDPOINT |-> "https://mcp.jai.com"]

(* _client: Optional[JaiAPIClient] = None (client/api.py:95).              *)
NoClient ==
    [api_key |-> None, tenant |-> None, endpoint |-> None, headers |-> <<>>,
     is_closed |-> FALSE]

NoCall == [tool |-> "", module_id |-> "", confirm |-> FALSE]

McpIdle(config) ==
    [config |-> config, pc |-> "idle", call |-> NoCall, request |-> NoRequest,
     log |-> <<>>]

InitWith(slots, e, counts) ==
    /\ proxy = "None"
    /\ audit_logger = "None"
    /\ env = e
    /\ server = "up"
    /\ _client = NoClient
    /\ mcp = McpIdle(DefaultConfig)
    /\ ALLOWED_ADMINS = parse_allowed_admins(e.JAI_ALLOWED_ADMINS)
    /\ now = 0
    /\ storage = counts
    /\ expirations = [k \in Clients |-> IF counts[k] > 0 THEN WindowSeconds ELSE 0]
    /\ window = [k \in Clients |-> [start |-> 0, admitted |-> counts[k],
                                     hits |-> counts[k]]]
    /\ reqs = [s \in slots |-> Idle]

NoHits == [k \in Clients |-> 0]
NearLimit == [k \in Clients |-> RateLimit - 1]

(* The pipeline: every kind of request, one client, whose window holds     *)
(* RateLimit - 1 hits (SpecBurst reaches that state from the empty         *)
(* limiter), under each configuration.                                     *)
Init == \E e \in Envs : InitWith(1 .. MaxInFlight, e, NearLimit)

Next ==
    \/ \E s \in DOMAIN reqs, r \in Requests : AuditReceive(s, r, RateLimit + MaxOver)
    \/ \E s \in DOMAIN reqs : HealthCheck(s)
    \/ \E s \in DOMAIN reqs : ProxyRequest(s)
    \/ \E s \in DOMAIN reqs : \E a \in AnswersTo(reqs[s].req) : UpstreamAnswers(s, a)
    \/ \E s \in DOMAIN reqs : AuditComplete(s)
    \/ \E s \in DOMAIN reqs : ServerError(s)
    \/ \E s \in DOMAIN reqs : Finish(s)
    \/ LifespanStartup
    \/ LifespanShutdown

Spec == Init /\ [][Next]_vars



-----------------------------------------------------------------------------
(* What a request presents, read off its headers.                          *)

InFlight(s) == reqs[s].pc # "idle"
IsApi(s) == InFlight(s) /\ match_route(reqs[s].req.url_path) = "api"
Answered(s) == reqs[s].pc = "done"

CredentialOf(req) == security(request_headers(req.headers), 401)
ApiKeyOf(req) ==
    IF CredentialOf(req).ok THEN verify_api_key(CredentialOf(req).value)
    ELSE CredentialOf(req)
IdentityOf(req) == get_user_from_api_key(ApiKeyOf(req).value)
TenantOf(req) == headers_get(request_headers(req.headers), "X-Tenant-Id")
HasRole(user, role) == role \in Range(user.roles)
IsAdmin(user) == HasRole(user, "system_admin") \/ HasRole(user, "org_admin")

-----------------------------------------------------------------------------
C3_Unauthenticated401 ==
    \A s \in DOMAIN reqs :
        LET req == reqs[s].req
            credentials == CredentialOf(req)
        IN  IsApi(s) =>
            /\ (~credentials.ok \/ Len(credentials.value) < 32)
                => /\ reqs[s].upstream = <<>>
                   /\ Answered(s) => reqs[s].status_code = 401
            /\ (credentials.ok /\ Len(credentials.value) = 32 /\ Answered(s))
                => reqs[s].status_code # 401

C7_AuditBracket ==
    \A s \in DOMAIN reqs :
        (audit_logger = "logger" /\ InFlight(s))
        => /\ ~Answered(s) => reqs[s].audit = <<request_received(reqs[s].req)>>
           /\ Answered(s) =>
                reqs[s].audit = <<request_received(reqs[s].req),
                                  request_completed(reqs[s].req, reqs[s].status_code)>>

(* C8: when the upstream answers a forwarded request with a status code    *)
(* s >= 400, the gateway's response has status code s.                     *)
C8_UpstreamStatusPassedThrough ==
    \A s \in DOMAIN reqs :
        (Answered(s) /\ reqs[s].answer.kind = "response"
                     /\ reqs[s].answer.status_code >= 400)
        => reqs[s].status_code = reqs[s].answer.status_code

(* C9: when the outbound call fails on the network (connection refused,    *)
(* timeout) the gateway answers 503, and that outcome differs from the one *)
(* it produces when the upstream answers with a 4xx/5xx status.            *)
C9_NetworkFailureIs503 ==
    \A s \in DOMAIN reqs :
        (Answered(s) /\ reqs[s].answer.kind \in {"ConnectError", "ReadTimeout"})
        => /\ reqs[s].status_code = 503
           /\ \A a \in Answers :
                (a.kind = "response" /\ a.status_code >= 400)
                => <<reqs[s].status_code, reqs[s].body>>
                     # <<proxy_response(a).status_code, proxy_response(a).body>>

-----------------------------------------------------------------------------
(* The burst: one client sends valid requests and requests without a       *)
(* credential, starting from the empty limiter, all at one instant.        *)

PlainGet(client) ==
    Request("GET", "/api/modules", "limit=5", client,
            HeaderList(Bearer(Key32), "t1"), None)

BurstRequests ==
    {PlainGet("10.0.0.1"),
     Request("GET", "/api/modules", "limit=5", "10.0.0.1", HeaderList(None, "t1"), None)}

InitBurst == InitWith(1 .. MaxInFlight, DefaultEnv, NoHits)

NextBurst ==
    \/ \E s \in DOMAIN reqs, r \in BurstRequests :
            proxy = "open" /\ AuditReceive(s, r, RateLimit + MaxOver)
    \/ \E s \in DOMAIN reqs : ProxyRequest(s)
    \/ \E s \in DOMAIN reqs : UpstreamAnswers(s, Response(200, JsonBody))
    \/ \E s \in DOMAIN reqs : AuditComplete(s)
    \/ \E s \in DOMAIN reqs : Finish(s)
    \/ LifespanStartup

SpecBurst == InitBurst /\ [][NextBurst]_vars

(* C2: when RateLimit requests of a client have been counted in the live   *)
(* window, the next request of that client to /api/{path} is answered 429  *)
(* whatever credential it carries: the rate limit is checked before the    *)
(* credential, the identity, the admin role and the tenant.                *)
RateLimitWins ==
    \A s \in DOMAIN reqs :
        LET k == reqs[s].req.client
        IN  (/\ reqs[s].pc = "call_next" /\ reqs'[s].pc # "call_next"
             /\ IsApi(s)
             /\ storage[k] >= RateLimit /\ now < expirations[k])
            => reqs'[s].status_code = 429

C2_RateLimitWins == [][RateLimitWins]_vars

-----------------------------------------------------------------------------
(* The limiter under concurrency: two clients, several requests in flight, *)
(* the clock advancing past the end of a window.  A client's window holds  *)
(* RateLimit - 1 hits at the start (SpecBurst reaches that state from the  *)
(* empty limiter).                                                         *)

InitLimiter == InitWith(1 .. MaxConcurrent, DefaultEnv, NearLimit)

NextLimiter ==
    \/ \E s \in DOMAIN reqs, c \in Clients :
            proxy = "open" /\ AuditReceive(s, PlainGet(c), RateLimit + MaxOver)
    \/ \E s \in DOMAIN reqs : ProxyRequest(s)
    \/ \E s \in DOMAIN reqs : UpstreamAnswers(s, Response(200, JsonBody))
    \/ \E s \in DOMAIN reqs : AuditComplete(s)
    \/ \E s \in DOMAIN reqs : Finish(s)
    \/ Tick
    \/ LifespanStartup

SpecLimiter == InitLimiter /\ [][NextLimiter]_vars

WithinLimit == \A k \in Clients : window[k].admitted <= RateLimit

(* A step in which the limiter decides on a request: the decision rests on *)
(* the requests of the same client admitted in its live window, and leaves *)
(* the other clients' counters as they are.                                *)
DecidesPerClient ==
    \A s \in DOMAIN reqs :
        (reqs[s].rate_limit = "unchecked" /\ reqs'[s].rate_limit # "unchecked")
        => LET k == reqs[s].req.client
               full == /\ window[k].admitted >= RateLimit
                       /\ now < window[k].start + WindowSeconds
           IN  /\ reqs'[s].rate_limit = "exceeded" <=> full
               /\ \A other \in Clients \ {k} :
                    /\ storage'[other] = storage[other]
                    /\ expirations'[other] = expirations[other]
                    /\ window'[other] = window[other]

(* C6: in every window of every client at most RateLimit = 60 requests of  *)
(* that client are admitted past the limiter, under every interleaving of  *)
(* concurrent requests; the count of one client never affects whether a    *)
(* request of another client is admitted.                                  *)
C6_PerClientLimit == [](WithinLimit) /\ [][DecidesPerClient]_vars

C6_Witness ==
    \E s1, s2 \in DOMAIN reqs :
        /\ reqs[s1].rate_limit = "exceeded"
        /\ reqs[s2].rate_limit = "admitted"
        /\ reqs[s1].req.client # reqs[s2].req.client
        /\ window[reqs[s1].req.client].admitted = RateLimit

-----------------------------------------------------------------------------
(* The header rewrite: a started gateway holds one request of the source's *)
(* user, to which the caller has added up to MaxHeaders headers, in any    *)
(* letter case, before or after the credential and the tenant.             *)

WirePairs ==
    {<<"AUTHORIZATION", "Bearer " \o KeyOrg>>, <<"authorization", "Basic dXNlcjpwYXNz">>,
     <<"Connection", "keep-alive">>, <<"Keep-Alive", "timeout=5">>,
     <<"Proxy-Authenticate", "Basic">>,
     <<"Proxy-Authorization", "Basic dXNlcjpwYXNz">>, <<"TE", "trailers">>,
     <<"Trailers", "Expires">>, <<"Transfer-Encoding", "chunked">>,
     <<"Upgrade", "websocket">>,
     <<"X-Gateway-User-Id", "root">>, <<"x-gateway-user-id", "root">>,
     <<"X-Internal-API-Key", "guess">>,
     <<"x-forwarded-for", "203.0.113.9">>, <<"User-Agent", "curl/8">>}

AddedHeaders == UNION {[1 .. n -> WirePairs] : n \in 0 .. MaxHeaders}

RewriteRequests ==
    {Request("GET", "/api/modules", "limit=5", "10.0.0.1", headers, None) :
        headers \in UNION {
            {<<<<name, Bearer(Key32)>>, <<"X-Tenant-ID", "t1">>>> \o added,
             added \o <<<<name, Bearer(Key32)>>, <<"X-Tenant-ID", "t1">>>>} :
            name \in {"Authorization", "authorization"},
            added \in AddedHeaders}}

RewriteEnvs ==
    {DefaultEnv, [DefaultEnv EXCEPT !.JAI_INTERNAL_API_KEY = "internal-secret"]}

InitHeaders ==
    \E e \in RewriteEnvs, r \in RewriteRequests :
        /\ proxy = "open"
        /\ audit_logger = setup_audit_logging(e)
        /\ env = e
        /\ server = "up"
        /\ _client = NoClient
        /\ mcp = McpIdle(DefaultConfig)
        /\ ALLOWED_ADMINS = parse_allowed_admins(e.JAI_ALLOWED_ADMINS)
        /\ now = 0
        /\ storage = NoHits
        /\ expirations = NoHits
        /\ window = [k \in Clients |-> [start |-> 0, admitted |-> 0, hits |-> 0]]
        /\ reqs = <<[Idle EXCEPT !.pc = "call_next", !.req = r,
                                 !.audit = <<request_received(r)>>]>>

NextHeaders ==
    \/ \E s \in DOMAIN reqs : ProxyRequest(s)
    \/ \E s \in DOMAIN reqs : UpstreamAnswers(s, Response(200, JsonBody))
    \/ \E s \in DOMAIN reqs : AuditComplete(s)

SpecHeaders == InitHeaders /\ [][NextHeaders]_vars

(* C10: whatever headers the inbound request carries, in whatever letter   *)
(* case, the headers sent upstream hold no header whose name is, ignoring  *)
(* case, authorization, connection, keep-alive, proxy-authenticate,        *)
(* proxy-authorization, te, trailers, transfer-encoding or upgrade.        *)
C10_NoAuthNoHopByHop ==
    \A s \in DOMAIN reqs :
        \A i \in DOMAIN reqs[s].upstream :
            \A name \in DOMAIN reqs[s].upstream[i].headers :
                lower(name) \notin
                    {"authorization", "connection", "keep-alive",
                     "proxy-authenticate", "proxy-authorization", "te",
                     "trailers", "transfer-encoding", "upgrade"}

C10_Witness ==
    \E s \in DOMAIN reqs :
        LET names == {reqs[s].req.headers[i][1] : i \in DOMAIN reqs[s].req.headers}
        IN  /\ reqs[s].upstream # <<>>
            /\ "AUTHORIZATION" \in names
            /\ "Transfer-Encoding" \in names

-----------------------------------------------------------------------------
(* The entries of a header mapping whose name is name, ignoring case.      *)
EntriesNamed(headers, name) == {k \in DOMAIN headers : lower(k) = name}

(* C11: the header mapping sent upstream holds, for each of                *)
(* x-gateway-user-id, x-gateway-user-email, x-gateway-user-roles,          *)
(* x-gateway-tenant-id and x-gateway-source compared without case, exactly *)
(* one entry, whose value is the one derived from the resolved identity    *)
(* and tenant, whatever headers of those names the caller sent.            *)
C11_GatewayHeadersUnique ==
    \A s \in DOMAIN reqs :
        \A i \in DOMAIN reqs[s].upstream :
            LET headers == reqs[s].upstream[i].headers
                user == reqs[s].admin_user
                derived == "x-gateway-user-id" :> user.id @@
                           "x-gateway-user-email" :> user.email @@
                           "x-gateway-user-roles" :> join(",", user.roles) @@
                           "x-gateway-tenant-id" :> reqs[s].tenant @@
                           "x-gateway-source" :> "mcp-gateway"
            IN  \A name \in DOMAIN derived :
                    /\ Cardinality(EntriesNamed(headers, name)) = 1
                    /\ \A k \in EntriesNamed(headers, name) : headers[k] = derived[name]

(* C12: the header mapping sent upstream holds an x-internal-api-key       *)
(* entry, compared without case, exactly when an internal credential is    *)
(* configured, and then one entry only, holding that credential; a header  *)
(* of that name sent by the caller never reaches the upstream.             *)
C12_InternalKeyOnlyFromConfig ==
    \A s \in DOMAIN reqs :
        \A i \in DOMAIN reqs[s].upstream :
            LET headers == reqs[s].upstream[i].headers
                entries == EntriesNamed(headers, "x-internal-api-key")
                configured == env.JAI_INTERNAL_API_KEY \notin {None, ""}
            IN  IF configured
                THEN /\ Cardinality(entries) = 1
                     /\ \A k \in entries : headers[k] = env.JAI_INTERNAL_API_KEY
                ELSE entries = {}

-----------------------------------------------------------------------------
(* C13: for an admitted request METHOD /api/{path}?{query} the gateway     *)
(* issues METHOD /{path}?{query} to the upstream, with X-Gateway-Tenant-Id *)
(* equal to the inbound X-Tenant-Id; the body sent is the inbound body for *)
(* POST and PUT and absent for GET and DELETE.                             *)
C13_ForwardedAsReceived ==
    \A s \in DOMAIN reqs :
        \A i \in DOMAIN reqs[s].upstream :
            LET req == reqs[s].req
                call == reqs[s].upstream[i]
            IN  /\ call.method = req.method
                /\ call.url = "/" \o ApiPath[req.url_path]
                                  \o (IF req.query = "" THEN "" ELSE "?" \o req.query)
                /\ \E k \in EntriesNamed(call.headers, "x-gateway-tenant-id") :
                        call.headers[k] = TenantOf(req)
                /\ call.content = IF req.method \in {"POST", "PUT"} THEN req.body ELSE None

-----------------------------------------------------------------------------
(* The allow-list as configured: the pieces of JAI_ALLOWED_ADMINS between  *)
(* commas, trimmed, without the blank ones.                                *)
ConfiguredAdmins == {strip(piece) : piece \in Range(env.JAI_ALLOWED_ADMINS)} \ {""}

(* C14: when the allow-list is not empty, a request whose identity has an  *)
(* admin role and an email outside the list is answered 403 and is not     *)
(* forwarded; when it is empty (unset, or blank entries only), an identity *)
(* with an admin role passes the admin check.                              *)
C14_AllowList ==
    \A s \in DOMAIN reqs :
        LET req == reqs[s].req
        IN  (IsApi(s) /\ ApiKeyOf(req).ok /\ IsAdmin(IdentityOf(req)))
            => IF ConfiguredAdmins # {} /\ IdentityOf(req).email \notin ConfiguredAdmins
               THEN /\ reqs[s].upstream = <<>>
                    /\ reqs[s].pc \in {"call_next", "responded", "done"}
                    /\ reqs[s].pc \in {"responded", "done"} => reqs[s].status_code = 403
               ELSE reqs[s].pc \in {"responded", "done"} => reqs[s].status_code # 403

C14_Witness ==
    \E s \in DOMAIN reqs :
        /\ Answered(s) /\ IsApi(s)
        /\ ApiKeyOf(reqs[s].req).ok
        /\ IdentityOf(reqs[s].req) = MockUser
        /\ ConfiguredAdmins # {}
        /\ IdentityOf(reqs[s].req).email \notin ConfiguredAdmins
        /\ reqs[s].status_code = 403

-----------------------------------------------------------------------------
(* The identity of a request passes the admin check: an admin role, and an *)
(* email of the allow-list when one is configured.                         *)
PassesAdminCheck(req) ==
    /\ ApiKeyOf(req).ok
    /\ IsAdmin(IdentityOf(req))
    /\ (ConfiguredAdmins = {} \/ IdentityOf(req).email \in ConfiguredAdmins)

(* C15: a request to /api/{path} from an identity that passes the admin    *)
(* check, system_admin included, whose X-Tenant-Id header is absent or     *)
(* empty is answered 400 and causes no upstream call.                      *)
C15_TenantRequired ==
    \A s \in DOMAIN reqs :
        (IsApi(s) /\ PassesAdminCheck(reqs[s].req) /\ TenantOf(reqs[s].req) \in {None, ""})
        => /\ reqs[s].upstream = <<>>
           /\ reqs[s].pc \in {"call_next", "responded", "done"}
           /\ reqs[s].pc \in {"responded", "done"} => reqs[s].status_code = 400

C15_Witness ==
    \E s \in DOMAIN reqs :
        /\ Answered(s) /\ IsApi(s)
        /\ PassesAdminCheck(reqs[s].req)
        /\ HasRole(IdentityOf(reqs[s].req), "system_admin")
        /\ TenantOf(reqs[s].req) = ""
        /\ reqs[s].status_code = 400

-----------------------------------------------------------------------------
(* A step in which the limiter rejects a request: the 429 response holds a *)
(* Retry-After header with the time left in the client's window.           *)
RetryAfterGiven ==
    \A s \in DOMAIN reqs :
        (reqs[s].pc = "call_next" /\ reqs'[s].pc = "responded"
                                  /\ reqs'[s].status_code = 429)
        => \E k \in EntriesNamed(reqs'[s].headers, "retry-after") :
                reqs'[s].headers[k] = expirations[reqs[s].req.client] - now

(* C16: every 429 response of the rate limiter carries a retry-after hint, *)
(* whose value is the time remaining in the rejected key's window.         *)
C16_RetryAfter == [][RetryAfterGiven]_vars

-----------------------------------------------------------------------------
(* Auditing: the gateway under each audit configuration, the log on        *)
(* stderr, in a file, in a file on a full disk, in a file that cannot be   *)
(* opened, or off.                                                         *)

AuditEnvs ==
    {DefaultEnv,
     [DefaultEnv EXCEPT !.JAI_AUDIT_ENABLED = "false"],
     [DefaultEnv EXCEPT !.JAI_AUDIT_LOG_FILE = "/var/log/jai/audit.log"],
     [DefaultEnv EXCEPT !.JAI_AUDIT_LOG_FILE = "/mnt/full/audit.log"],
     [DefaultEnv EXCEPT !.JAI_AUDIT_LOG_FILE = "/missing/audit.log"]}

AuditRequests ==
    {PlainGet("10.0.0.1"),
     Request("GET", "/api/modules", "limit=5", "10.0.0.1", HeaderList(None, "t1"), None),
     Request("GET", "/health", "", "10.0.0.1", <<<<"User-Agent", "curl/8">>>>, None)}

InitAudit == \E e \in AuditEnvs : InitWith(1 .. MaxInFlight, e, NearLimit)

NextAudit ==
    \/ \E s \in DOMAIN reqs, r \in AuditRequests :
            AuditReceive(s, r, RateLimit + MaxOver)
    \/ \E s \in DOMAIN reqs : HealthCheck(s)
    \/ \E s \in DOMAIN reqs : ProxyRequest(s)
    \/ \E s \in DOMAIN reqs :
            \E a \in {Response(200, JsonBody), Response(200, BinaryBody),
                      Response(500, TextBody)} : UpstreamAnswers(s, a)
    \/ \E s \in DOMAIN reqs : AuditComplete(s)
    \/ \E s \in DOMAIN reqs : ServerError(s)
    \/ \E s \in DOMAIN reqs : Finish(s)
    \/ LifespanStartup
    \/ LifespanShutdown

SpecAudit == InitAudit /\ [][NextAudit]_vars

AuditFields == {"timestamp", "level", "logger", "event_type"}

(* C17: every audit record the gateway emits, request_received,            *)
(* request_completed or mcp_operation, is an object with the fields        *)
(* timestamp, level, logger and event_type, and event_type is the record's *)
(* kind.                                                                   *)
C17_AuditRecordFields ==
    /\ \A s \in DOMAIN reqs : \A i \in DOMAIN reqs[s].audit :
        \A extra \in LogRecordExtras :
            LET entry == format(LogRecord(reqs[s].audit[i], extra), "2026-01-01T00:00:00")
            IN  /\ AuditFields \subseteq DOMAIN entry
                /\ entry["event_type"] \in {"request_received", "request_completed"}
    /\ \A extra \in LogRecordExtras :
            LET entry == format(LogRecord(
                            log_mcp_operation("delete_module", MockUser, "t1", None,
                                              "2026-01-01T00:00:00"), extra),
                            "2026-01-01T00:00:01")
            IN  /\ AuditFields \subseteq DOMAIN entry
                /\ entry["event_type"] = "mcp_operation"

(* A step of audit_middleware leaves the response as the pipeline made it. *)
AuditKeepsResponse ==
    \A s \in DOMAIN reqs :
        (reqs[s].pc = "responded" /\ reqs'[s].pc = "done")
        => /\ reqs'[s].status_code = reqs[s].status_code
           /\ reqs'[s].body = reqs[s].body

(* C18: an audit sink that cannot be opened at startup, or that fails when *)
(* a record is written, never stops requests from being served: the        *)
(* server stays up and every response is the one the pipeline made.        *)
C18_AuditFailsOpen == [](server = "up") /\ [][AuditKeepsResponse]_vars

(* C19: GET /health is answered 200 with the body                          *)
(* {status: "healthy", service: <name>} for every request, with or without *)
(* a credential or a tenant header and in every state of the rate limiter, *)
(* and it never causes a call to the upstream API nor a hit on the limiter.*)
C19_HealthAlwaysHealthy ==
    \A s \in DOMAIN reqs :
        (InFlight(s) /\ match_route(reqs[s].req.url_path) = "health")
        => /\ reqs[s].pc \in {"call_next", "responded", "done"}
           /\ reqs[s].upstream = <<>>
           /\ reqs[s].rate_limit = "unchecked"
           /\ reqs[s].pc \in {"responded", "done"}
                => /\ reqs[s].status_code = 200
                   /\ reqs[s].body = [type |-> "json", data |-> HealthBody]

(* A /health request without credential is answered 200 while its client's *)
(* window is full.                                                         *)
C19_Witness ==
    \E s \in DOMAIN reqs :
        /\ Answered(s)
        /\ match_route(reqs[s].req.url_path) = "health"
        /\ reqs[s].status_code = 200
        /\ ~CredentialOf(reqs[s].req).ok
        /\ storage[reqs[s].req.client] >= RateLimit
        /\ now < expirations[reqs[s].req.client]

(* C20: any two forwarded requests that end in a 500 have the same fixed   *)
(* body, whatever the exception, the upstream's body or the upstream's     *)
(* status.                                                                 *)
C20_One500Body ==
    \A s \in DOMAIN reqs :
        (Answered(s) /\ reqs[s].upstream # <<>> /\ reqs[s].status_code = 500)
        => reqs[s].body = [type |-> "detail", data |-> "Internal server error"]

-----------------------------------------------------------------------------
(* The tool layer (client/api.py, tools/health.py, tools/modules.py): the  *)
(* MCP server runs a tool, the tool takes the singleton client and issues  *)
(* its request to the gateway.                                             *)

Endpoints == {"https://mcp.jai.com", "https://mcp.jai.com/api"}

(* The path part of a configured endpoint.                                 *)
EndpointPath == "https://mcp.jai.com" :> "" @@ "https://mcp.jai.com/api" :> "/api"

(* httpx joins a request path to base_url: the base's path, a slash, the   *)
(* path without its leading slashes.                                       *)
merge_url(endpoint, path) == EndpointPath[endpoint] \o "/" \o lstrip_slash(path)

(* JaiAPIClient.__init__ (client/api.py:22-47).                            *)
JaiAPIClient(config) ==
    [api_key |-> config.JAI_API_KEY, tenant |-> config.JAI_TENANT,
     endpoint |-> config.JAI_MCP_ENDPOINT,
     headers |-> <<<<"X-API-Key", config.JAI_API_KEY>>,
                   <<"X-Tenant-ID", config.JAI_TENANT>>,
                   <<"Content-Type", "application/json">>>>,
     is_closed |-> FALSE]

(* get_client (client/api.py:98-103).                                      *)
get_client(client, config) == IF client = NoClient THEN JaiAPIClient(config) ELSE client

(* JaiAPIClient.__aexit__ (client/api.py:52-53).                           *)
aexit(client) == [client EXCEPT !.is_closed = TRUE]

ToolAddress == "10.0.0.2"

ToolCalls ==
    {[tool |-> "check_platform_health", module_id |-> "", confirm |-> FALSE],
     [tool |-> "list_modules", module_id |-> "", confirm |-> FALSE],
     [tool |-> "delete_module", module_id |-> "42", confirm |-> FALSE],
     [tool |-> "delete_module", module_id |-> "42", confirm |-> TRUE]}

(* The request a tool hands to the client (health.py:25, modules.py:78,    *)
(* modules.py:235) as it goes out: JaiAPIClient.request, client/api.py:63. *)
tool_request(client, call) ==
    LET method == IF call.tool = "delete_module" THEN "DELETE" ELSE "GET"
        path == IF call.tool = "check_platform_health" THEN "/health"
                ELSE IF call.tool = "list_modules" THEN "/modules"
                ELSE "/modules/" \o call.module_id
        query == IF call.tool = "list_modules" THEN "limit=20" ELSE ""
    IN  Request(method, merge_url(client.endpoint, path), query, ToolAddress,
                client.headers, None)

(* delete_module running without its confirm check.                       *)
refuses_never(call) == FALSE

(* delete_module's guard (modules.py:229-230).                             *)
refuses(call) == call.tool = "delete_module" /\ ~call.confirm

(* What JaiAPIClient.request makes of the gateway's response               *)
(* (client/api.py:62-71) and the tool of that.                             *)
tool_result(status_code, body) ==
    IF status_code >= 400
    THEN [kind |-> "failure", detail |-> "API request failed", status_code |-> status_code]
    ELSE IF body.type \in {"json", "json_string"}
    THEN [kind |-> "success", detail |-> "", status_code |-> status_code]
    ELSE [kind |-> "failure", detail |-> "Request failed", status_code |-> status_code]

Completed(call, issued, closed_at_request, result) ==
    [call |-> call, issued |-> issued, closed_at_request |-> closed_at_request,
     result |-> result]

(* A tool runs from its call to its first await on the network: the        *)
(* refusal of delete_module, else get_client, async with client, and       *)
(* client.request, which httpx refuses on a closed client (RuntimeError,   *)
(* turned into JaiAPIError and the tool's failure message).                *)
ToolCall(call) ==
    /\ mcp.pc = "idle"
    /\ Len(mcp.log) < MaxCalls
    /\ \A s \in DOMAIN reqs : reqs[s].pc = "idle"
    /\ IF refuses(call)
       THEN /\ mcp' = [mcp EXCEPT !.log = Append(@,
                        Completed(call, <<>>, FALSE,
                            [kind |-> "refusal", detail |-> "Deletion requires confirmation",
                             status_code |-> 0]))]
            /\ _client' = _client
       ELSE LET client == get_client(_client, mcp.config)
            IN  IF client.is_closed
                THEN /\ mcp' = [mcp EXCEPT !.log = Append(@,
                                Completed(call, <<>>, TRUE,
                                    [kind |-> "failure", detail |-> "Request failed",
                                     status_code |-> 0]))]
                     /\ _client' = aexit(client)
                ELSE /\ mcp' = [mcp EXCEPT !.pc = "awaiting_gateway", !.call = call,
                                           !.request = tool_request(client, call)]
                     /\ _client' = client
    /\ UNCHANGED <<proxy, audit_logger, env, server, ALLOWED_ADMINS, storage,
                   expirations, now, window, reqs>>

(* The tool's request arrives at the gateway.                              *)
GatewayReceives(s) ==
    /\ mcp.pc = "awaiting_gateway"
    /\ \A t \in DOMAIN reqs : reqs[t].pc = "idle"
    /\ AuditReceive(s, mcp.request, RateLimit + MaxOver)

(* A path no route matches: the router answers 404.                        *)
NotFound(s) ==
    /\ reqs[s].pc = "call_next"
    /\ match_route(reqs[s].req.url_path) = "none"
    /\ reqs' = [reqs EXCEPT ![s] =
            Respond(@, 404, [type |-> "detail", data |-> "Not Found"])]
    /\ UNCHANGED <<proxy, audit_logger, env, server, _client, mcp, ALLOWED_ADMINS,
                   storage, expirations, now, window>>

(* The gateway's response reaches the tool: JaiAPIClient.request returns   *)
(* or raises, the async with block ends and closes the client, the tool    *)
(* returns its message.                                                    *)
ToolReturn(s) ==
    /\ mcp.pc = "awaiting_gateway"
    /\ reqs[s].pc = "done"
    /\ mcp' = [mcp EXCEPT !.pc = "idle", !.call = NoCall, !.request = NoRequest,
                          !.log = Append(@,
                                Completed(mcp.call, <<mcp.request>>, FALSE,
                                    tool_result(reqs[s].status_code, reqs[s].body)))]
    /\ _client' = aexit(_client)
    /\ UNCHANGED <<proxy, audit_logger, env, server, ALLOWED_ADMINS, storage,
                   expirations, now, window, reqs>>

ClientConfigs == {[DefaultConfig EXCEPT !.JAI_MCP_ENDPOINT = e] : e \in Endpoints}

InitTools ==
    \E config \in ClientConfigs :
        /\ proxy = "open"
        /\ audit_logger = setup_audit_logging(DefaultEnv)
        /\ env = DefaultEnv
        /\ server = "up"
        /\ _client = NoClient
        /\ mcp = McpIdle(config)
        /\ ALLOWED_ADMINS = parse_allowed_admins(DefaultEnv.JAI_ALLOWED_ADMINS)
        /\ now = 0
        /\ storage = NoHits
        /\ expirations = NoHits
        /\ window = [k \in Clients |-> [start |-> 0, admitted |-> 0, hits |-> 0]]
        /\ reqs = [s \in 1 .. MaxInFlight |-> Idle]

NextTools ==
    \/ \E call \in ToolCalls : ToolCall(call)
    \/ \E s \in DOMAIN reqs : GatewayReceives(s)
    \/ \E s \in DOMAIN reqs : HealthCheck(s)
    \/ \E s \in DOMAIN reqs : ProxyRequest(s)
    \/ \E s \in DOMAIN reqs : NotFound(s)
    \/ \E s \in DOMAIN reqs : AuditComplete(s)
    \/ \E s \in DOMAIN reqs : ToolReturn(s)
    \/ \E s \in DOMAIN reqs : mcp.pc = "idle" /\ Finish(s)

SpecTools == InitTools /\ [][NextTools]_vars

IsDelete(call, confirm) == call.tool = "delete_module" /\ call.confirm = confirm

(* C22: delete_module called with confirm = False issues no request and    *)
(* returns a refusal; a DELETE request is issued only by a delete_module   *)
(* call whose confirm is True.                                             *)
C22_DeleteNeedsConfirm ==
    /\ \A i \in DOMAIN mcp.log :
        /\ IsDelete(mcp.log[i].call, FALSE)
            => /\ mcp.log[i].issued = <<>>
               /\ mcp.log[i].result.kind = "refusal"
        /\ \A j \in DOMAIN mcp.log[i].issued :
                mcp.log[i].issued[j].method = "DELETE" => IsDelete(mcp.log[i].call, TRUE)
    /\ mcp.request.method = "DELETE" => IsDelete(mcp.call, TRUE)
    /\ \A s \in DOMAIN reqs :
        (mcp.pc = "awaiting_gateway" /\ reqs[s].req.method = "DELETE")
        => IsDelete(mcp.call, TRUE)

(* A refused delete_module is followed by a confirmed one, whose DELETE    *)
(* goes out.                                                               *)
C22_Witness ==
    \E i, j \in DOMAIN mcp.log :
        /\ i < j
        /\ IsDelete(mcp.log[i].call, FALSE)
        /\ mcp.log[i].result.kind = "refusal"
        /\ IsDelete(mcp.log[j].call, TRUE)
        /\ Len(mcp.log[j].issued) = 1
        /\ mcp.log[j].issued[1].method = "DELETE"

(* C26: across any sequence of tool invocations, the client get_client()   *)
(* returns is open at the moment the tool issues its request.              *)
C26_ClientOpenAtRequest ==
    \A i \in DOMAIN mcp.log : ~mcp.log[i].closed_at_request

(* C27: every request JaiAPIClient issues carries the credential as        *)
(* Authorization: Bearer <credential> and the tenant as X-Tenant-ID, has a *)
(* path under /api/, and, the key being valid and the tenant set, is       *)
(* admitted by the gateway (not answered 401, 403 or 404).                 *)
C27_ClientMeetsGateway ==
    \A s \in DOMAIN reqs :
        (InFlight(s) /\ reqs[s].req.client = ToolAddress)
        => LET h == request_headers(reqs[s].req.headers)
           IN  /\ headers_get(h, "Authorization") = Bearer(mcp.config.JAI_API_KEY)
               /\ headers_get(h, "X-Tenant-ID") = mcp.config.JAI_TENANT
               /\ match_route(reqs[s].req.url_path) = "api"
               /\ Answered(s) => reqs[s].status_code \notin {401, 403, 404}

NoSecondAttempt ==
    \A s \in DOMAIN reqs :
        reqs[s].upstream # <<>>
        => \/ reqs'[s].upstream = reqs[s].upstream
              /\ (reqs[s].pc # "awaiting_upstream" => reqs'[s].pc # "awaiting_upstream")
           \/ reqs'[s] = Idle

(* C24: each inbound request causes at most one call to the upstream API:  *)
(* after an upstream error status, a network failure or a timeout the      *)
(* gateway makes no second attempt.                                        *)
C24_SingleAttempt ==
    /\ [](\A s \in DOMAIN reqs : Len(reqs[s].upstream) <= 1)
    /\ [][NoSecondAttempt]_vars

(* Requests have been answered after one call that ended in an error       *)
(* status, and after one that failed on the network.                       *)
C24_Witness ==
    \E s \in DOMAIN reqs :
        /\ Answered(s)
        /\ Len(reqs[s].upstream) = 1
        /\ reqs[s].answer.kind = "ReadTimeout"

(* C25: for every forwarded request that the upstream answers with a       *)
(* status below 400, the gateway's response status is 200 whatever the     *)
(* upstream's code was, and the body is the upstream body parsed as JSON   *)
(* when it parses, else the upstream's raw bytes (taken here to include    *)
(* those bytes sent as the JSON string they decode to).                    *)
C25_SuccessIs200 ==
    \A s \in DOMAIN reqs :
        (Answered(s) /\ reqs[s].answer.kind = "response"
                     /\ reqs[s].answer.status_code < 400)
        => /\ reqs[s].status_code = 200
           /\ reqs[s].body.data = reqs[s].answer.body
           /\ IF is_json(reqs[s].answer.body) THEN reqs[s].body.type = "json"
              ELSE reqs[s].body.type \in {"bytes", "json_string"}

====
